---- MODULE Spec2Model ----
(***************************************************************************)
(* SDKMethodRunner of execution_engine2: the permission decorators, the    *)
(* admin permission lookup, the lazily built clients and the time          *)
(* conversion helper.                                                      *)
(*                                                                         *)
(* Four specifications share the module's variables:                       *)
(*   SpecHandles  the client accessors (get_jobs_status_range .. get_      *)
(*                workspace) of several SDKMethodRunner instances          *)
(*   SpecAdmin    get_admin_permission and check_job_canceled              *)
(*   SpecGate     allow_job_read / allow_job_write / check_job over the    *)
(*                job permission cache with its expiry                     *)
(*   SpecTime     _check_and_convert_time                                  *)
(***************************************************************************)
EXTENDS Integers, Sequences, FiniteSets, TLC

VARIABLES
    handles,               \* per instance: attribute name -> object id (None = 0)
    next_id,               \* identity of the next object a constructor returns
    constructions,         \* per instance and attribute: constructor calls so far
    first_returned,        \* per instance and attribute: the object first returned
    returned,              \* what the last accessor call returned
    ncalls,                \* accessor / delegating calls made so far
    job_permission_cache,  \* self.job_permission_cache (shared by the instances)
    roles_cache,           \* self.roles_cache (shared by the instances)
    now,                   \* seconds on the caches' clock
    role_authority,        \* the admin level the role authority holds per user
    last,                  \* the last call: its inputs, its steps, its outcome
    time_input,            \* _check_and_convert_time: argument
    assign_default_time,   \* _check_and_convert_time: argument
    time_result,           \* _check_and_convert_time: what the call did
    time_pc                \* "call" before the conversion ran, "done" after

vars == <<handles, next_id, constructions, first_returned, returned, ncalls,
          job_permission_cache, roles_cache, now, role_authority, last,
          time_input, assign_default_time, time_result, time_pc>>

handle_vars == <<handles, next_id, constructions, first_returned, returned, ncalls>>
cache_vars == <<job_permission_cache, roles_cache, now, role_authority, last>>
time_vars == <<time_input, assign_default_time, time_result, time_pc>>

(***************************************************************************)
(* Bounds of the model                                                     *)
(***************************************************************************)
MaxCalls == 3          \* accessor / delegating calls per behaviour
MaxTicks == 3          \* clock advances per behaviour
TickSeconds == 120     \* seconds per clock advance
MaxLen == 3            \* longest string handed to _check_and_convert_time
MaxInt == 2            \* integers handed to it lie in -MaxInt .. MaxInt

(***************************************************************************)
(* SDKMethodRunner constants and the JobPermissions enum                   *)
(***************************************************************************)
JOB_PERMISSION_CACHE_SIZE == 500
JOB_PERMISSION_CACHE_EXPIRE_TIME == 300

READ == "r"
WRITE == "w"
NONE == "n"
JobPermissions == {READ, WRITE, NONE}

\* Python's None, and a local variable that was never assigned
None == "None"
Unbound == "<unbound>"

Contexts == {"sdkmr1", "sdkmr2"}
Users == {"alice", "bob"}
Jobs == {"job1"}

\* self.user_id of each instance (the constructor's user_id argument)
user_id(c) == IF c = "sdkmr1" THEN "alice" ELSE "bob"

(***************************************************************************)
(* The lazily built clients                                                *)
(***************************************************************************)
HandleNames == {"_ee2_status_range", "_ee2_logs", "_ee2_runjob", "_ee2_status",
                "workspace_auth", "mongo_util", "condor", "workspace"}

NoHandle == 0

\* __init__: every client attribute starts as None
init_handles == [c \in Contexts |-> [n \in HandleNames |-> NoHandle]]

\* a faulty variant: the accessor builds a new client on every call
lazy_get_always_builds(current, fresh) == fresh

\* `if self.x is None: self.x = X(...)` then `return self.x`
lazy_get(current, fresh) == IF current = NoHandle THEN fresh ELSE current

\* one accessor call on instance c for attribute n
Accessor(c, n) ==
    LET built == handles[c][n] = NoHandle
        obj == lazy_get(handles[c][n], next_id)
    IN  /\ handles' = [handles EXCEPT ![c][n] = obj]
        /\ next_id' = IF obj = next_id THEN next_id + 1 ELSE next_id
        /\ constructions' = [constructions EXCEPT ![c][n] =
                                IF obj = next_id THEN @ + 1 ELSE @]
        /\ first_returned' = [first_returned EXCEPT ![c][n] =
                                IF @ = NoHandle THEN obj ELSE @]
        /\ returned' = [ctx |-> c, name |-> n, obj |-> obj, built |-> built]

get_jobs_status_range(c) == Accessor(c, "_ee2_status_range")
get_job_logs(c) == Accessor(c, "_ee2_logs")
get_runjob(c) == Accessor(c, "_ee2_runjob")
get_jobs_status(c) == Accessor(c, "_ee2_status")
get_workspace_auth(c) == Accessor(c, "workspace_auth")
get_mongo_util(c) == Accessor(c, "mongo_util")
get_condor(c) == Accessor(c, "condor")
get_workspace(c) == Accessor(c, "workspace")

NoReturn == [ctx |-> None, name |-> None, obj |-> NoHandle, built |-> FALSE]

InitHandleVars ==
    /\ handles = init_handles
    /\ next_id = 1
    /\ constructions = [c \in Contexts |-> [n \in HandleNames |-> 0]]
    /\ first_returned = [c \in Contexts |-> [n \in HandleNames |-> NoHandle]]
    /\ returned = NoReturn
    /\ ncalls = 0

InitCacheVarsIdle ==
    /\ job_permission_cache = <<>>
    /\ roles_cache = <<>>
    /\ now = 0
    /\ role_authority = [u \in Users |-> NONE]
    /\ last = [op |-> None]

InitTimeVarsIdle ==
    /\ time_input = [kind |-> "other", val |-> None]
    /\ assign_default_time = FALSE
    /\ time_result = [outcome |-> None]
    /\ time_pc = "idle"

InitHandles == InitHandleVars /\ InitCacheVarsIdle /\ InitTimeVarsIdle

CallBudget == ncalls < MaxCalls /\ ncalls' = ncalls + 1

GetJobsStatusRange ==
    \E c \in Contexts : CallBudget /\ get_jobs_status_range(c)
        /\ UNCHANGED <<cache_vars, time_vars>>
GetJobLogs ==
    \E c \in Contexts : CallBudget /\ get_job_logs(c)
        /\ UNCHANGED <<cache_vars, time_vars>>
GetRunjob ==
    \E c \in Contexts : CallBudget /\ get_runjob(c)
        /\ UNCHANGED <<cache_vars, time_vars>>
GetJobsStatus ==
    \E c \in Contexts : CallBudget /\ get_jobs_status(c)
        /\ UNCHANGED <<cache_vars, time_vars>>
GetWorkspaceAuth ==
    \E c \in Contexts : CallBudget /\ get_workspace_auth(c)
        /\ UNCHANGED <<cache_vars, time_vars>>
GetMongoUtil ==
    \E c \in Contexts : CallBudget /\ get_mongo_util(c)
        /\ UNCHANGED <<cache_vars, time_vars>>
GetCondor ==
    \E c \in Contexts : CallBudget /\ get_condor(c)
        /\ UNCHANGED <<cache_vars, time_vars>>
GetWorkspace ==
    \E c \in Contexts : CallBudget /\ get_workspace(c)
        /\ UNCHANGED <<cache_vars, time_vars>>

NextHandles ==
    \/ GetJobsStatusRange
    \/ GetJobLogs
    \/ GetRunjob
    \/ GetJobsStatus
    \/ GetWorkspaceAuth
    \/ GetMongoUtil
    \/ GetCondor
    \/ GetWorkspace

SpecHandles == InitHandles /\ [][NextHandles]_vars

\* C10: on every SDKMethodRunner instance each lazily built client is
\* constructed at most once, every accessor call returns the instance the
\* first call returned, and no object is held by two instances.
C10_HandlesBuiltOnce ==
    /\ \A c \in Contexts : \A n \in HandleNames :
        /\ constructions[c][n] <= 1
        /\ (constructions[c][n] = 0) = (handles[c][n] = NoHandle)
        /\ handles[c][n] = first_returned[c][n]
    /\ returned.obj # NoHandle =>
        /\ returned.obj = first_returned[returned.ctx][returned.name]
        /\ returned.obj = handles[returned.ctx][returned.name]
    /\ \A c1 \in Contexts : \A c2 \in Contexts : \A n1 \in HandleNames :
        \A n2 \in HandleNames :
            (handles[c1][n1] # NoHandle /\ handles[c1][n1] = handles[c2][n2])
                => (c1 = c2 /\ n1 = n2)

\* an accessor was called a second time on one instance after the same
\* accessor built a client on another instance
C10_Witness ==
    /\ returned.obj # NoHandle
    /\ ~returned.built
    /\ \E c \in Contexts : c # returned.ctx /\ handles[c][returned.name] # NoHandle


(***************************************************************************)
(* The caches.  ee2_cache.get_cache is handed size and expire by __init__; *)
(* an entry is a value with the time it was stored, it is served until it  *)
(* is older than expire seconds, and a lookup does not restart its life.   *)
(***************************************************************************)
\* a faulty variant: __init__ hands the cache size over as the expiry time
job_permission_cache_expire_is_size == JOB_PERMISSION_CACHE_SIZE

\* __init__: expire=self.JOB_PERMISSION_CACHE_EXPIRE_TIME
job_permission_cache_expire == JOB_PERMISSION_CACHE_EXPIRE_TIME

\* __init__: size=self.JOB_PERMISSION_CACHE_SIZE
job_permission_cache_size == JOB_PERMISSION_CACHE_SIZE

EmptyCache == <<>>

\* `key in cache`
cache_contains(cache, key, t) ==
    /\ key \in DOMAIN cache
    /\ t - cache[key].inserted <= job_permission_cache_expire

\* `cache.get(key)`
cache_get(cache, key, t) ==
    IF cache_contains(cache, key, t) THEN cache[key].value ELSE None

\* the other entries a store keeps: a full cache gives up its oldest entry.
\* (The keys of this model never fill the cache.)
cache_kept(cache, key, t) ==
    LET live == DOMAIN cache \ {key}
        oldest == CHOOSE k \in live : \A o \in live :
                      cache[k].inserted <= cache[o].inserted
    IN  IF Cardinality(live) >= job_permission_cache_size
        THEN live \ {oldest}
        ELSE live

\* `cache[key] = value`
cache_set(cache, key, value, t) ==
    LET kept == cache_kept(cache, key, t)
    IN  [k \in kept \cup {key} |->
            IF k = key THEN [value |-> value, inserted |-> t] ELSE cache[k]]

(***************************************************************************)
(* Permission levels                                                       *)
(***************************************************************************)
\* None < Read < Write
Rank(p) == IF p = WRITE THEN 2 ELSE IF p = READ THEN 1 ELSE 0

\* actual >= requested
satisfies(actual, requested) == Rank(actual) >= Rank(requested)

BoolStr(b) == IF b THEN "True" ELSE "False"

(***************************************************************************)
(* get_admin_permission                                                    *)
(***************************************************************************)
\* `if self.user_id in self.job_permission_cache:
\*      permission = self.job_permission_cache.get(self.user_id)`
\* the local variable stays unassigned when the user is not in the cache
admin_permission_lookup(cache, user, t) ==
    IF cache_contains(cache, user, t)
    THEN [hit |-> TRUE, permission |-> cache_get(cache, user, t),
          caches_read |-> {"job_permission_cache"}, role_fetched |-> FALSE]
    ELSE [hit |-> FALSE, permission |-> Unbound,
          caches_read |-> {"job_permission_cache"}, role_fetched |-> FALSE]

\* a faulty variant: a READ request is granted to READ holders only
admin_permission_compare_exact(permission, requested) ==
    IF requested \in {READ, WRITE}
    THEN IF permission = Unbound THEN "UnboundLocalError"
         ELSE BoolStr(permission = requested)
    ELSE "Exception"

\* a faulty variant: a request for neither READ nor WRITE is answered False
admin_permission_compare_lenient(permission, requested) ==
    IF requested = READ
    THEN IF permission = Unbound THEN "UnboundLocalError"
         ELSE BoolStr(permission \in {READ, WRITE})
    ELSE IF permission = Unbound THEN "UnboundLocalError"
         ELSE BoolStr(requested = WRITE /\ permission \in {WRITE})

\* the if / elif / else over requested_permission; reading the unassigned
\* local raises UnboundLocalError
admin_permission_compare(permission, requested) ==
    IF requested = READ
    THEN IF permission = Unbound THEN "UnboundLocalError"
         ELSE BoolStr(permission \in {READ, WRITE})
    ELSE IF requested = WRITE
    THEN IF permission = Unbound THEN "UnboundLocalError"
         ELSE BoolStr(permission \in {WRITE})
    ELSE "Exception"

get_admin_permission(cache, user, requested, t) ==
    LET looked == admin_permission_lookup(cache, user, t)
    IN  [hit |-> looked.hit,
         permission |-> looked.permission,
         caches_read |-> looked.caches_read,
         role_fetched |-> looked.role_fetched,
         compared |-> requested \in {READ, WRITE},
         outcome |-> admin_permission_compare(looked.permission, requested)]

\* the record of one call
Call(op, c, requested, job_id, as_admin, adm, outcome, delegated) ==
    [op |-> op, ctx |-> c, user |-> user_id(c), requested |-> requested,
     job_id |-> job_id, as_admin |-> as_admin, at |-> now,
     admin_checked |-> adm.compared \/ adm.outcome = "Exception",
     hit |-> adm.hit, permission |-> adm.permission,
     caches_read |-> adm.caches_read, role_fetched |-> adm.role_fetched,
     compared |-> adm.compared, admin_outcome |-> adm.outcome,
     outcome |-> outcome, delegated |-> delegated]

NoAdminCall ==
    [hit |-> FALSE, permission |-> Unbound, caches_read |-> {},
     role_fetched |-> FALSE, compared |-> FALSE, outcome |-> None]

\* check_job_canceled up to the delegation: the outcome of its admin branch
check_job_canceled_admin(as_admin, adm) ==
    IF as_admin
    THEN IF adm.outcome \in {"UnboundLocalError", "Exception"} THEN adm.outcome
         ELSE IF adm.outcome = "False" THEN "NotPermitted"
         ELSE "delegated"
    ELSE "delegated"

InjectedEntries == [value : JobPermissions, inserted : {0}]

\* the caches handed to __init__: the job permission cache may already hold
\* entries under user ids
InjectedCaches == UNION {[S -> InjectedEntries] : S \in SUBSET Users}

InitAdmin ==
    /\ InitHandleVars
    /\ InitTimeVarsIdle
    /\ job_permission_cache \in InjectedCaches
    /\ roles_cache = EmptyCache
    /\ now = 0
    /\ role_authority \in [Users -> JobPermissions]
    /\ last = Call(None, "sdkmr1", None, None, FALSE, NoAdminCall, None, FALSE)

GetAdminPermission ==
    \E c \in Contexts : \E requested \in JobPermissions \cup {None} :
        LET adm == get_admin_permission(job_permission_cache, user_id(c),
                                        requested, now)
        IN  /\ last' = Call("get_admin_permission", c, requested, None, FALSE,
                            adm, adm.outcome, FALSE)
            /\ UNCHANGED <<handle_vars, job_permission_cache, roles_cache, now,
                           role_authority, time_vars>>

CheckJobCanceled ==
    \E c \in Contexts : \E job_id \in Jobs : \E as_admin \in BOOLEAN :
        LET adm == IF as_admin
                   THEN get_admin_permission(job_permission_cache, user_id(c),
                                             READ, now)
                   ELSE NoAdminCall
            outcome == check_job_canceled_admin(as_admin, adm)
        IN  /\ last' = Call("check_job_canceled", c,
                            IF as_admin THEN READ ELSE None, job_id, as_admin,
                            adm, outcome, outcome = "delegated")
            /\ IF outcome = "delegated"
               THEN get_jobs_status(c)
               ELSE UNCHANGED <<handles, next_id, constructions, first_returned,
                                returned>>
            /\ UNCHANGED <<ncalls, job_permission_cache, roles_cache, now,
                           role_authority, time_vars>>

Tick ==
    /\ now < MaxTicks * TickSeconds
    /\ now' = now + TickSeconds
    /\ UNCHANGED <<handle_vars, job_permission_cache, roles_cache,
                   role_authority, last, time_vars>>

NextAdmin ==
    \/ GetAdminPermission
    \/ CheckJobCanceled
    \/ Tick

SpecAdmin == InitAdmin /\ [][NextAdmin]_vars


\* C1: when the caller has no entry in the admin cache, get_admin_permission
\* obtains the caller's level from the role authority before it compares it
\* with the requested level: the comparison never reads an unassigned value.
C1_ResolvedBeforeCompare ==
    (last.op = "get_admin_permission" /\ last.requested \in {READ, WRITE}
        /\ ~last.hit)
    => (last.role_fetched /\ last.permission # Unbound
        /\ last.outcome \in {"True", "False"})

\* C3: for every resolved admin level a and requested level r in {Read, Write}
\* get_admin_permission returns exactly a >= r under None < Read < Write.
C3_AdminCompareIsOrder ==
    (last.op = "get_admin_permission" /\ last.permission # Unbound
        /\ last.requested \in {READ, WRITE})
    => last.outcome = BoolStr(Rank(last.permission) >= Rank(last.requested))

\* a read-only admin level was resolved and WRITE was requested
C3_Witness ==
    /\ last.op = "get_admin_permission"
    /\ last.permission = READ
    /\ last.requested = WRITE
    /\ last.outcome = "False"

\* C4: get_admin_permission called with requested level None raises an error
\* and returns neither true nor false, whatever the caller, the cached level
\* and the cache state.
C4_NoneRequestRaises ==
    (last.op = "get_admin_permission" /\ last.requested \notin {READ, WRITE})
    => last.outcome = "Exception"

\* a caller cached with WRITE asked for the level NONE
C4_Witness ==
    /\ last.op = "get_admin_permission"
    /\ last.requested = NONE
    /\ last.hit
    /\ last.permission = WRITE
    /\ last.outcome = "Exception"

\* C5: an admin-level lookup reads and writes only the admin (roles) cache,
\* so no value of the job permission cache is ever returned by it.
C5_AdminLookupUsesRolesCache ==
    (last.op = "get_admin_permission")
    => (last.caches_read \subseteq {"roles_cache"})

\* C8: check_job_canceled with as_admin=true asks for the read-admin level
\* only, delegates if and only if the caller's admin level is Read or Write,
\* and raises without delegating when it is None.
C8_CancelCheckNeedsReadAdmin ==
    (last.op = "check_job_canceled" /\ last.as_admin)
    => /\ last.requested = READ
       /\ last.delegated = (role_authority[last.user] \in {READ, WRITE})
       /\ (role_authority[last.user] = NONE =>
              (~last.delegated /\ last.outcome # "delegated"))


(***************************************************************************)
(* The permission decorators and check_job                                 *)
(***************************************************************************)
\* ee2_cache: the job permission lookup the decorators call.  A live entry
\* under (user, job) is served; otherwise the authorization authority is
\* asked once and its answer stored.
test_job_permission_with_cache(cache, user, job_id, level, t, answer) ==
    LET key == <<user, job_id>>
        hit == cache_contains(cache, key, t)
        had == key \in DOMAIN cache
        resolved == IF hit THEN cache_get(cache, key, t) ELSE answer
    IN  [cache |-> IF hit THEN cache ELSE cache_set(cache, key, answer, t),
         consulted |-> TRUE,
         had |-> had,
         inserted_before |-> IF had THEN cache[key].inserted ELSE 0,
         authority_calls |-> IF hit THEN 0 ELSE 1,
         resolved |-> resolved,
         permitted |-> satisfies(resolved, level)]

NotConsulted(cache) ==
    [cache |-> cache, consulted |-> FALSE, had |-> FALSE, inserted_before |-> 0,
     authority_calls |-> 0, resolved |-> None, permitted |-> FALSE]

\* the body of `inner`: the job_id check, the permission test, the call of
\* the wrapped function.  as_admin stays in kwargs and is not looked at.
gate_inner(cache, user, job_id, level, t, answer) ==
    IF job_id = None
    THEN [res |-> NotConsulted(cache), level |-> level,
          steps |-> <<"job_id">>, outcome |-> "ValueError"]
    ELSE LET res == test_job_permission_with_cache(cache, user, job_id, level,
                                                   t, answer)
         IN  IF res.permitted
             THEN [res |-> res, level |-> level,
                   steps |-> <<"job_id", "permission", "func">>,
                   outcome |-> "delegated"]
             ELSE [res |-> res, level |-> level,
                   steps |-> <<"job_id", "permission">>,
                   outcome |-> "PermissionError"]

\* a faulty variant: the write decorator tests for READ
allow_job_write_tests_read(cache, user, job_id, t, answer) ==
    [gate_inner(cache, user, job_id, READ, t, answer) EXCEPT !.level = WRITE]

allow_job_read(cache, user, job_id, t, answer) ==
    gate_inner(cache, user, job_id, READ, t, answer)

allow_job_write(cache, user, job_id, t, answer) ==
    gate_inner(cache, user, job_id, WRITE, t, answer)

\* the record of one call through a decorator or through check_job
GateCall(op, c, job_id, as_admin, g) ==
    [op |-> op, ctx |-> c, user |-> user_id(c), job_id |-> job_id,
     as_admin |-> as_admin, at |-> now, level |-> g.level,
     admin_checked |-> FALSE,
     consulted |-> g.res.consulted, had |-> g.res.had,
     inserted_before |-> g.res.inserted_before,
     authority_calls |-> g.res.authority_calls,
     resolved |-> g.res.resolved, steps |-> g.steps,
     outcome |-> g.outcome, delegated |-> g.outcome = "delegated"]

NoGate ==
    [res |-> NotConsulted(EmptyCache), level |-> None, steps |-> <<>>,
     outcome |-> None]

InitGate ==
    /\ InitHandleVars
    /\ InitTimeVarsIdle
    /\ job_permission_cache = EmptyCache
    /\ roles_cache = EmptyCache
    /\ now = 0
    /\ role_authority \in [Users -> {NONE}]
    /\ last = GateCall(None, "sdkmr1", None, FALSE, NoGate)

\* what the authorization authority may answer in a call: any level when
\* the call reaches it, nothing to choose when the call never asks
AuthorityAnswers(user, job_id) ==
    IF job_id # None /\ ~cache_contains(job_permission_cache, <<user, job_id>>, now)
    THEN JobPermissions
    ELSE {NONE}

AllowJobRead ==
    \E c \in Contexts : \E job_id \in Jobs \cup {None} :
    \E as_admin \in BOOLEAN : \E answer \in AuthorityAnswers(user_id(c), job_id) :
        LET g == allow_job_read(job_permission_cache, user_id(c), job_id, now,
                                answer)
        IN  /\ job_permission_cache' = g.res.cache
            /\ last' = GateCall("allow_job_read", c, job_id, as_admin, g)
            /\ UNCHANGED <<handle_vars, roles_cache, now, role_authority,
                           time_vars>>

AllowJobWrite ==
    \E c \in Contexts : \E job_id \in Jobs \cup {None} :
    \E as_admin \in BOOLEAN : \E answer \in AuthorityAnswers(user_id(c), job_id) :
        LET g == allow_job_write(job_permission_cache, user_id(c), job_id, now,
                                 answer)
        IN  /\ job_permission_cache' = g.res.cache
            /\ last' = GateCall("allow_job_write", c, job_id, as_admin, g)
            /\ UNCHANGED <<handle_vars, roles_cache, now, role_authority,
                           time_vars>>

\* check_job hands job_id, check_permission and exclude_fields to
\* JobsStatus.check_job; its as_admin argument goes nowhere
check_job(cache, job_id) ==
    [res |-> NotConsulted(cache), level |-> READ,
     steps |-> <<"get_jobs_status", "check_job">>, outcome |-> "delegated"]

CheckJob ==
    \E c \in Contexts : \E job_id \in Jobs : \E as_admin \in BOOLEAN :
        /\ last' = GateCall("check_job", c, job_id, as_admin,
                            check_job(job_permission_cache, job_id))
        /\ get_jobs_status(c)
        /\ UNCHANGED <<ncalls, job_permission_cache, roles_cache, now,
                       role_authority, time_vars>>

TickGate ==
    /\ now < MaxTicks * TickSeconds
    /\ now' = now + TickSeconds
    /\ UNCHANGED <<handle_vars, job_permission_cache, roles_cache,
                   role_authority, last, time_vars>>

NextGate ==
    \/ AllowJobRead
    \/ AllowJobWrite
    \/ CheckJob
    \/ TickGate

SpecGate == InitGate /\ [][NextGate]_vars

GateOps == {"allow_job_read", "allow_job_write"}

\* C2: a gated operation called with as_admin=true is decided by the admin
\* check alone: the admin check is made, the operation runs only if it
\* passes, and the job permission lookup is not consulted in that call.
C2_AdminGateSkipsJobLookup ==
    (last.op \in GateOps \cup {"check_job"} /\ last.as_admin)
    => (last.admin_checked /\ ~last.consulted)

Digits == {"0", "7"}
Chars == Digits \cup {".", "x"}

Strings == UNION {[1..n -> Chars] : n \in 0..MaxLen}

\* a time value, and an exception in its place
Seconds(mant, scale) == [err |-> "", mant |-> mant, scale |-> scale]
Raised(err) == [err |-> err, mant |-> 0, scale |-> 0]

TimeInputs ==
    [kind : {"bool"}, val : BOOLEAN]
    \cup [kind : {"int"}, val : (0 - MaxInt)..MaxInt]
    \cup [kind : {"str"}, val : Strings]
    \cup [kind : {"datetime"}, val : 0..MaxInt]
    \cup [kind : {"float"}, val : {Seconds(i, 1) : i \in 0..MaxInt}]
    \cup [kind : {"other"}, val : {None}]

\* the readings of time.time()
WallClocks == {Seconds(1000 + i, 0) : i \in 0..1}

\* isinstance(x, str)
is_str(x) == x.kind = "str"

\* isinstance(x, int): bool is a subclass of int
is_int(x) == x.kind \in {"int", "bool"}

\* isinstance(x, datetime)
is_datetime(x) == x.kind = "datetime"

\* the integer a bool or an int stands for in arithmetic
int_value(x) == IF x.kind = "bool" THEN (IF x.val THEN 1 ELSE 0) ELSE x.val

\* the index of the first "." of s, 0 when it has none
first_dot(s) ==
    IF \E i \in 1..Len(s) : s[i] = "."
    THEN CHOOSE i \in 1..Len(s) : s[i] = "." /\ \A j \in 1..(i - 1) : s[j] # "."
    ELSE 0

\* s.replace(".", "", 1)
replace_first_dot(s) ==
    LET d == first_dot(s)
    IN  IF d = 0 THEN s
        ELSE [i \in 1..(Len(s) - 1) |-> IF i < d THEN s[i] ELSE s[i + 1]]

\* str.isdigit()
isdigit(s) == Len(s) > 0 /\ \A i \in 1..Len(s) : s[i] \in Digits

digit_value(ch) == IF ch = "7" THEN 7 ELSE 0

RECURSIVE int_of(_)
\* int(s) of a string of digits
int_of(s) ==
    IF Len(s) = 0 THEN 0
    ELSE 10 * int_of(SubSeq(s, 1, Len(s) - 1)) + digit_value(s[Len(s)])

\* float(s) of digits around one "."
float_of(s) == Seconds(int_of(replace_first_dot(s)), Len(s) - first_dot(s))

\* what dateutil.parser.parse(s).timestamp() may do with a string that is
\* not numeric: raise, or give some epoch value
DateutilOutcomes == {Raised("ParserError")} \cup {Seconds(i, 0) : i \in 0..1}

\* the try block: the converted value, or the error raised in it.  The
\* values of this model all lie in the range datetime.fromtimestamp accepts,
\* so that check fails on a value that is no number (None) only.
convert_time_input(x, parsed) ==
    IF is_str(x)
    THEN IF isdigit(replace_first_dot(x.val))
         THEN IF first_dot(x.val) # 0
              THEN float_of(x.val)
              ELSE Seconds(int_of(x.val), 3)
         ELSE parsed
    ELSE IF is_int(x)
    THEN Seconds(int_value(x), 3)
    ELSE IF is_datetime(x)
    THEN Seconds(x.val, 0)
    ELSE IF x.kind = "float" THEN x.val
    ELSE Raised("TypeError")

\* the whole function: the value returned, or the ValueError raised
check_and_convert_time(x, assign_default, parsed, wall) ==
    LET converted == convert_time_input(x, parsed)
    IN  IF converted.err # ""
        THEN IF assign_default
             THEN [outcome |-> "returned", value |-> wall, defaulted |-> TRUE]
             ELSE [outcome |-> "ValueError", value |-> Raised("ValueError"),
                   defaulted |-> FALSE]
        ELSE [outcome |-> "returned", value |-> converted, defaulted |-> FALSE]

InitTime ==
    /\ InitHandleVars
    /\ InitCacheVarsIdle
    /\ time_input \in TimeInputs
    /\ assign_default_time \in BOOLEAN
    /\ time_result = [outcome |-> None, value |-> Raised(""), defaulted |-> FALSE]
    /\ time_pc = "call"

\* the strings that reach dateutil
ReachesDateutil(x) == is_str(x) /\ ~isdigit(replace_first_dot(x.val))

CheckAndConvertTime ==
    /\ time_pc = "call"
    /\ \E parsed \in (IF ReachesDateutil(time_input) THEN DateutilOutcomes
                      ELSE {Raised("ParserError")}) :
       \E wall \in WallClocks :
           time_result' = check_and_convert_time(time_input, assign_default_time,
                                                 parsed, wall)
    /\ time_pc' = "done"
    /\ UNCHANGED <<handle_vars, cache_vars, time_input, assign_default_time>>

NextTime == CheckAndConvertTime

SpecTime == InitTime /\ [][NextTime]_vars

\* C9: _check_and_convert_time rejects every boolean input: it raises with
\* assign_default_time false, returns the current wall-clock time with
\* assign_default_time true, and never returns a value computed from the
\* boolean.
C9_BooleanRejected ==
    (time_pc = "done" /\ time_input.kind = "bool")
    => IF assign_default_time
       THEN time_result.outcome = "returned" /\ time_result.defaulted
       ELSE time_result.outcome = "ValueError"

====
